---- MODULE Spec2Model ----
(***************************************************************************)
(* Model of src-tauri/python/bge_embed.py: the BGEEmbedder facade over an  *)
(* external SentenceTransformer, the module-level lazy singleton _model    *)
(* and the convenience functions get_model, embed_text, embed_text_batch.  *)
(*                                                                         *)
(* The external collaborator (SentenceTransformer construction, encode,    *)
(* ndarray.tolist) is an environment: each of its operations either        *)
(* succeeds or raises an exception derived from Exception, chosen          *)
(* nondeterministically.  encode is a deterministic element-wise function  *)
(* of its input strings when it succeeds.                                  *)
(***************************************************************************)
EXTENDS Integers, Sequences, FiniteSets, TLC

(***************************************************************************)
(* Bounds of the model.                                                    *)
(***************************************************************************)
NumThreads == 2
MaxCalls == 3
MaxBatch == 2

Threads == 1..NumThreads
\* the thread of a single-threaded host
MainThread == CHOOSE t \in Threads : \A u \in Threads : t <= u

(***************************************************************************)
(* Python values passed by callers.  A value carries its type; s is the    *)
(* content of a str, n the content of an int.                              *)
(***************************************************************************)
PyStrVal(s) == [ty |-> "str", s |-> s, n |-> 0]
PyInt(n) == [ty |-> "int", s |-> "", n |-> n]
PyNone == [ty |-> "NoneType", s |-> "", n |-> 0]
\* an object whose __str__ raises
PyBadObj == [ty |-> "object", s |-> "", n |-> 0]

Values == {PyStrVal("7"), PyStrVal("a b"), PyInt(7), PyInt(-12), PyNone, PyBadObj}

RECURSIVE SeqsUpTo(_, _)
SeqsUpTo(S, n) ==
    IF n = 0 THEN {<<>>}
    ELSE LET shorter == SeqsUpTo(S, n - 1)
         IN shorter \cup {Append(q, x) : q \in {r \in shorter : Len(r) = n - 1}, x \in S}

Batches == SeqsUpTo(Values, MaxBatch)

(***************************************************************************)
(* Exceptions.  NoExc stands for "nothing raised".                         *)
(***************************************************************************)
NoExc == ""
LoadExcs == {"OSError", "RuntimeError"}
EncodeExcs == {"RuntimeError", "ValueError"}
StrExc == "TypeError"
ToListExc == "MemoryError"

(***************************************************************************)
(* Behaviour of the external collaborator during one call: whether encode  *)
(* raises, and the index of the embedding whose tolist raises (0: none).   *)
(***************************************************************************)
Faults == [encode : {NoExc} \cup EncodeExcs, tolist : 0..MaxBatch]
NoFault == [encode |-> NoExc, tolist |-> 0]

(***************************************************************************)
(* str(x) of Python, by type.                                              *)
(***************************************************************************)
Digit(d) == <<"0", "1", "2", "3", "4", "5", "6", "7", "8", "9">>[d + 1]

RECURSIVE IntStr(_)
IntStr(n) ==
    IF n < 0 THEN "-" \o IntStr(-n)
    ELSE IF n < 10 THEN Digit(n)
    ELSE IntStr(n \div 10) \o Digit(n % 10)

Ok(s) == [ok |-> TRUE, s |-> s, exc |-> NoExc]
Raised(e) == [ok |-> FALSE, s |-> "", exc |-> e]

PyStr(x) ==
    CASE x.ty = "str" -> Ok(x.s)
      [] x.ty = "int" -> Ok(IntStr(x.n))
      [] x.ty = "NoneType" -> Ok("None")
      [] OTHER -> Raised(StrExc)

(***************************************************************************)
(* Embeddings: the ndarray row encode yields for a string, and the Python  *)
(* list tolist makes of it.                                                *)
(***************************************************************************)
Ndarray(s) == [kind |-> "ndarray", of |-> s]
ToList(a) == [kind |-> "list", of |-> a.of]
NoVec == [kind |-> "none", of |-> ""]

\* SentenceTransformer.encode: element-wise, order-preserving
Encode(texts) == [i \in 1..Len(texts) |-> Ndarray(texts[i])]

(***************************************************************************)
(* Lines printed to stdout.                                                *)
(***************************************************************************)
DefaultModelName == "BAAI/bge-m3"
ErrorPrefixes == {"Error initializing model", "Error generating embedding",
                  "Error generating batch embeddings"}
Line(msg, arg) == [msg |-> msg, arg |-> arg]
IsErrorLine(l) == l.msg \in ErrorPrefixes
ErrorLines(o) == SelectSeq(o, IsErrorLine)

(***************************************************************************)
(* Outcome of a method of BGEEmbedder: what the caller gets (status, vec,  *)
(* vecs, exc), what was printed (out), and what happened at the external   *)
(* model: the argument lists encode was called with (encoded), and the     *)
(* operation that raised with the exception it raised (site, thrown).      *)
(***************************************************************************)
Returns(vec, vecs, encoded) ==
    [status |-> "ok", vec |-> vec, vecs |-> vecs, exc |-> NoExc, out |-> <<>>,
     encoded |-> encoded, site |-> "", thrown |-> NoExc]

ReraiseWrapped(e) == "InferenceError"

\* bare "raise" inside an except clause: the caught exception, unchanged
Reraise(e) == e

ExceptPartial(prefix, e, site, encoded, partial) ==
    [status |-> "raised", vec |-> NoVec, vecs |-> partial, exc |-> Reraise(e),
     out |-> <<Line(prefix, e)>>, encoded |-> encoded, site |-> site, thrown |-> e]

ExceptSilent(prefix, e, site, encoded, partial) ==
    [status |-> "raised", vec |-> NoVec, vecs |-> <<>>, exc |-> Reraise(e),
     out |-> <<>>, encoded |-> encoded, site |-> site, thrown |-> e]

\* except Exception as e: print(f"<prefix>: {str(e)}"); raise
\* partial holds the vectors computed before the exception; they are dropped
Except(prefix, e, site, encoded, partial) ==
    [status |-> "raised", vec |-> NoVec, vecs |-> <<>>, exc |-> Reraise(e),
     out |-> <<Line(prefix, e)>>, encoded |-> encoded, site |-> site, thrown |-> e]

CoerceTextNoConv(text) == IF text.ty # "str" THEN Raised(StrExc) ELSE Ok(text.s)

CoerceTextRepr(text) == IF text.ty # "str" THEN PyStr(text) ELSE Ok("'" \o text.s \o "'")

\* text = str(text) unless text is a str already
CoerceText(text) == IF text.ty # "str" THEN PyStr(text) ELSE Ok(text.s)

\* [str(t) for t in texts]: left to right, stops at the first exception
RECURSIVE CoerceBatch(_)
CoerceBatch(texts) ==
    IF texts = <<>> THEN [ok |-> TRUE, val |-> <<>>, exc |-> NoExc]
    ELSE LET rest == CoerceBatch(SubSeq(texts, 1, Len(texts) - 1))
             last == PyStr(texts[Len(texts)])
         IN IF ~rest.ok THEN rest
            ELSE IF ~last.ok THEN [ok |-> FALSE, val |-> rest.val, exc |-> last.exc]
            ELSE [ok |-> TRUE, val |-> Append(rest.val, last.s), exc |-> NoExc]

RECURSIVE ConvertBatchReversed(_, _)
ConvertBatchReversed(embeddings, fault) ==
    IF embeddings = <<>> THEN [ok |-> TRUE, val |-> <<>>, exc |-> NoExc]
    ELSE LET n == Len(embeddings)
             rest == ConvertBatchReversed(SubSeq(embeddings, 1, n - 1), fault)
         IN IF ~rest.ok THEN rest
            ELSE IF fault.tolist = n THEN [ok |-> FALSE, val |-> rest.val, exc |-> ToListExc]
            ELSE [ok |-> TRUE, val |-> <<ToList(embeddings[n])>> \o rest.val, exc |-> NoExc]

\* [emb.tolist() for emb in embeddings]: left to right, stops at the first
\* exception; val holds the lists made so far
RECURSIVE ConvertBatch(_, _)
ConvertBatch(embeddings, fault) ==
    IF embeddings = <<>> THEN [ok |-> TRUE, val |-> <<>>, exc |-> NoExc]
    ELSE LET n == Len(embeddings)
             rest == ConvertBatch(SubSeq(embeddings, 1, n - 1), fault)
         IN IF ~rest.ok THEN rest
            ELSE IF fault.tolist = n THEN [ok |-> FALSE, val |-> rest.val, exc |-> ToListExc]
            ELSE [ok |-> TRUE, val |-> Append(rest.val, ToList(embeddings[n])), exc |-> NoExc]

BGEEmbedder_embed_text(text, fault) ==
    LET prefix == "Error generating embedding"
        c == CoerceText(text)
    IN IF ~c.ok THEN Except(prefix, c.exc, "str", <<>>, <<>>)
       ELSE IF fault.encode # NoExc
            THEN Except(prefix, fault.encode, "encode", <<(<<c.s>>)>>, <<>>)
       ELSE LET embedding == Encode(<<c.s>>)[1]
            IN IF fault.tolist = 1
               THEN Except(prefix, ToListExc, "tolist", <<(<<c.s>>)>>, <<>>)
               ELSE Returns(ToList(embedding), <<>>, <<(<<c.s>>)>>)

BGEEmbedder_embed_batch(texts, fault) ==
    LET prefix == "Error generating batch embeddings"
        c == CoerceBatch(texts)
    IN IF ~c.ok THEN Except(prefix, c.exc, "str", <<>>, <<>>)
       ELSE IF fault.encode # NoExc
            THEN Except(prefix, fault.encode, "encode", <<c.val>>, <<>>)
       ELSE LET v == ConvertBatch(Encode(c.val), fault)
            IN IF ~v.ok THEN Except(prefix, v.exc, "tolist", <<c.val>>, v.val)
               ELSE Returns(NoVec, v.val, <<c.val>>)

\* BGEEmbedder.__init__: loadExc is what SentenceTransformer(model_name)
\* raises (NoExc: it returns a model)
BGEEmbedder_init(model_name, loadExc) ==
    LET hello == Line("Initializing BGE model", model_name)
    IN IF loadExc = NoExc
       THEN [status |-> "ok", exc |-> NoExc, thrown |-> NoExc,
             out |-> <<hello, Line("Model initialized successfully", "")>>]
       ELSE [status |-> "raised", exc |-> Reraise(loadExc), thrown |-> loadExc,
             out |-> <<hello, Line("Error initializing model", loadExc)>>]

(***************************************************************************)
(* The process.                                                            *)
(*   _model     the module global: None, or the BGEEmbedder instance       *)
(*   instances  number of BGEEmbedder instances constructed so far, each   *)
(*              holding its own SentenceTransformer; instance k is the     *)
(*              k-th one constructed                                       *)
(*   calls      number of calls of the module's functions started so far   *)
(*   pc         where each thread is in its call                           *)
(*   call       the function a thread is calling and its argument          *)
(*   handle     the instance get_model returned to the thread's call       *)
(*   result     what the call gives its caller                             *)
(*   out        the lines the call has printed                             *)
(*   ext        the call's use of the external model: number of            *)
(*              SentenceTransformer(...) invocations, argument lists of    *)
(*              encode, and the operation that raised with its exception   *)
(*   inferenceFailed  some finished call raised from an embedding method   *)
(***************************************************************************)
VARIABLES _model, instances, calls, pc, call, handle, result, out, ext, inferenceFailed

vars == <<_model, instances, calls, pc, call, handle, result, out, ext, inferenceFailed>>

None == 0

Ops == {"get_model", "embed_text", "embed_text_batch"}
NoCall == [op |-> "", text |-> PyNone, texts |-> <<>>]
NoResult == [status |-> "none", handle |-> None, vec |-> NoVec, vecs |-> <<>>, exc |-> NoExc]
NoExt == [constructs |-> 0, encoded |-> <<>>, site |-> "", thrown |-> NoExc]

InitEager ==
    /\ _model = 1
    /\ instances = 1
    /\ calls = 0
    /\ pc = [t \in Threads |-> "idle"]
    /\ call = [t \in Threads |-> NoCall]
    /\ handle = [t \in Threads |-> None]
    /\ result = [t \in Threads |-> NoResult]
    /\ out = [t \in Threads |-> <<>>]
    /\ ext = [t \in Threads |-> NoExt]
    /\ inferenceFailed = FALSE

Init ==
    /\ _model = None
    /\ instances = 0
    /\ calls = 0
    /\ pc = [t \in Threads |-> "idle"]
    /\ call = [t \in Threads |-> NoCall]
    /\ handle = [t \in Threads |-> None]
    /\ result = [t \in Threads |-> NoResult]
    /\ out = [t \in Threads |-> <<>>]
    /\ ext = [t \in Threads |-> NoExt]
    /\ inferenceFailed = FALSE

\* a caller invokes one of the module's functions
Call(t) ==
    /\ pc[t] = "idle"
    /\ calls < MaxCalls
    /\ \E c \in {[op |-> "get_model", text |-> PyNone, texts |-> <<>>]}
            \cup {[op |-> "embed_text", text |-> x, texts |-> <<>>] : x \in Values}
            \cup {[op |-> "embed_text_batch", text |-> PyNone, texts |-> b] : b \in Batches} :
          call' = [call EXCEPT ![t] = c]
    /\ calls' = calls + 1
    /\ pc' = [pc EXCEPT ![t] = "get_model"]
    /\ UNCHANGED <<_model, instances, handle, result, out, ext, inferenceFailed>>

get_model_always(t) ==
    /\ pc[t] = "get_model"
    /\ pc' = [pc EXCEPT ![t] = "construct"]
    /\ UNCHANGED <<_model, instances, calls, call, handle, result, out, ext, inferenceFailed>>

\* get_model, line 50: if _model is None
get_model_check(t) ==
    /\ pc[t] = "get_model"
    /\ pc' = [pc EXCEPT ![t] = IF _model = None THEN "construct" ELSE "return"]
    /\ UNCHANGED <<_model, instances, calls, call, handle, result, out, ext, inferenceFailed>>

get_model_construct_cached(t) ==
    /\ pc[t] = "construct"
    /\ \E loadExc \in {NoExc} \cup LoadExcs :
          LET r == BGEEmbedder_init(DefaultModelName, loadExc)
          IN /\ out' = [out EXCEPT ![t] = out[t] \o r.out]
             /\ ext' = [ext EXCEPT ![t].constructs = @ + 1,
                                   ![t].site = IF r.status = "ok" THEN @ ELSE "construct",
                                   ![t].thrown = r.thrown]
             /\ instances' = instances + 1
             /\ _model' = instances + 1
             /\ IF r.status = "ok"
                THEN /\ pc' = [pc EXCEPT ![t] = "return"]
                     /\ UNCHANGED result
                ELSE /\ result' = [result EXCEPT ![t] = [NoResult EXCEPT !.status = "raised",
                                                                        !.exc = r.exc]]
                     /\ pc' = [pc EXCEPT ![t] = "done"]
    /\ UNCHANGED <<calls, call, handle, inferenceFailed>>

\* get_model, line 51: _model = BGEEmbedder()
get_model_construct(t) ==
    /\ pc[t] = "construct"
    /\ \E loadExc \in {NoExc} \cup LoadExcs :
          LET r == BGEEmbedder_init(DefaultModelName, loadExc)
          IN /\ out' = [out EXCEPT ![t] = out[t] \o r.out]
             /\ ext' = [ext EXCEPT ![t].constructs = @ + 1,
                                   ![t].site = IF r.status = "ok" THEN @ ELSE "construct",
                                   ![t].thrown = r.thrown]
             /\ IF r.status = "ok"
                THEN /\ instances' = instances + 1
                     /\ _model' = instances + 1
                     /\ pc' = [pc EXCEPT ![t] = "return"]
                     /\ UNCHANGED result
                ELSE /\ result' = [result EXCEPT ![t] = [NoResult EXCEPT !.status = "raised",
                                                                        !.exc = r.exc]]
                     /\ pc' = [pc EXCEPT ![t] = "done"]
                     /\ UNCHANGED <<_model, instances>>
    /\ UNCHANGED <<calls, call, handle, inferenceFailed>>

\* get_model, line 52: return _model
get_model_return(t) ==
    /\ pc[t] = "return"
    /\ handle' = [handle EXCEPT ![t] = _model]
    /\ IF call[t].op = "get_model"
       THEN /\ result' = [result EXCEPT ![t] = [NoResult EXCEPT !.status = "ok",
                                                               !.handle = _model]]
            /\ pc' = [pc EXCEPT ![t] = "done"]
       ELSE /\ pc' = [pc EXCEPT ![t] = "method"]
            /\ UNCHANGED result
    /\ UNCHANGED <<_model, instances, calls, call, out, ext, inferenceFailed>>

\* the effect of a method of the instance on the calling thread
Finish(t, r) ==
    /\ result' = [result EXCEPT ![t] = [status |-> r.status, handle |-> None, vec |-> r.vec,
                                        vecs |-> r.vecs, exc |-> r.exc]]
    /\ out' = [out EXCEPT ![t] = out[t] \o r.out]
    /\ ext' = [ext EXCEPT ![t].encoded = r.encoded, ![t].site = r.site, ![t].thrown = r.thrown]
    /\ inferenceFailed' = (inferenceFailed \/ r.status = "raised")
    /\ pc' = [pc EXCEPT ![t] = "done"]
    /\ UNCHANGED <<_model, instances, calls, call, handle>>

\* embed_text, line 56: get_model().embed_text(text)
embed_text(t) ==
    /\ pc[t] = "method"
    /\ call[t].op = "embed_text"
    /\ \E fault \in Faults : Finish(t, BGEEmbedder_embed_text(call[t].text, fault))

\* embed_text_batch, line 60: get_model().embed_batch(texts)
embed_text_batch(t) ==
    /\ pc[t] = "method"
    /\ call[t].op = "embed_text_batch"
    /\ \E fault \in Faults : Finish(t, BGEEmbedder_embed_batch(call[t].texts, fault))

\* the call is over: the caller has its value or its exception
Return(t) ==
    /\ pc[t] = "done"
    /\ pc' = [pc EXCEPT ![t] = "idle"]
    /\ call' = [call EXCEPT ![t] = NoCall]
    /\ handle' = [handle EXCEPT ![t] = None]
    /\ result' = [result EXCEPT ![t] = NoResult]
    /\ out' = [out EXCEPT ![t] = <<>>]
    /\ ext' = [ext EXCEPT ![t] = NoExt]
    /\ UNCHANGED <<_model, instances, calls, inferenceFailed>>

Step(t) ==
    \/ Call(t)
    \/ get_model_check(t)
    \/ get_model_construct(t)
    \/ get_model_return(t)
    \/ embed_text(t)
    \/ embed_text_batch(t)
    \/ Return(t)

\* any number of host threads call into the module
Next == \E t \in Threads : Step(t)

Spec == Init /\ [][Next]_vars

\* a single-threaded host
NextSeq == Step(MainThread)

SpecSeq == Init /\ [][NextSeq]_vars

(***************************************************************************)
(* Properties.                                                             *)
(***************************************************************************)
Done(t) == pc[t] = "done"
Failed(t) == Done(t) /\ result[t].status = "raised"
Succeeded(t) == Done(t) /\ result[t].status = "ok"
\* the call got its instance and has run the instance's method
MethodRan(t) == Done(t) /\ ext[t].site # "construct"
InMethod(t) == call[t].op \in {"embed_text", "embed_text_batch"}
\* the string the external model is to encode for the value x
Text(x) == PyStr(x).s
\* the embedding the external model gives the value x, as a Python list
Embedding(x) == ToList(Encode(<<Text(x)>>)[1])

\* C1: under concurrent first calls the external model is constructed at most
\* once and all callers obtain the same handle.
C1_SingleInitialization ==
    /\ instances <= 1
    /\ \A t, u \in Threads :
          (handle[t] # None /\ handle[u] # None) => handle[t] = handle[u]

\* C2: in a single-threaded run the model is constructed exactly once, by the
\* call that initializes the handle; afterwards _model is that one instance for
\* good and every call works on it, also after failed inference.
C2_ConstructedOnce ==
    /\ instances <= 1
    /\ (_model = None) <=> (instances = 0)
    /\ _model # None => _model = 1
    /\ handle[MainThread] # None => (handle[MainThread] = _model /\ _model = 1)
    /\ (Done(MainThread) /\ ext[MainThread].site # "construct") => handle[MainThread] = 1

C2_Witness ==
    /\ inferenceFailed
    /\ calls >= 2
    /\ Succeeded(MainThread)
    /\ InMethod(MainThread)
    /\ ext[MainThread].constructs = 0
    /\ handle[MainThread] = 1

\* C3: a call in which construction fails ends with the exception, leaves
\* _model None (nothing cached) and has invoked the constructor once.
C3_FailedConstruction ==
    (Done(MainThread) /\ ext[MainThread].site = "construct") =>
        /\ result[MainThread].status = "raised"
        /\ result[MainThread].exc \in LoadExcs
        /\ _model = None
        /\ instances = 0
        /\ handle[MainThread] = None
        /\ ext[MainThread].constructs = 1

C3_Witness ==
    /\ Failed(MainThread)
    /\ ext[MainThread].site = "construct"
    /\ call[MainThread].op = "get_model"
    /\ _model = None

\* C4: construction is lazy: before any call the handle is None and nothing has
\* been constructed; constructions only come from calls, at most one per call.
C4_Lazy ==
    /\ calls = 0 => (_model = None /\ instances = 0)
    /\ instances <= calls
    /\ \A t \in Threads : ext[t].constructs > 0 => call[t].op \in Ops

C4_Witness ==
    /\ calls = 1
    /\ instances = 1
    /\ pc[MainThread] = "return"
    /\ ext[MainThread].constructs = 1

\* C5: when nothing raises, embed_batch returns one vector per input element,
\* the i-th being the model's encoding of the i-th element; the empty batch
\* gives the empty sequence.
C5_BatchOrder ==
    (MethodRan(MainThread) /\ call[MainThread].op = "embed_text_batch") =>
        LET texts == call[MainThread].texts
            r == result[MainThread]
        IN /\ ext[MainThread].site = "" =>
                /\ r.status = "ok"
                /\ Len(r.vecs) = Len(texts)
                /\ \A i \in 1..Len(texts) : r.vecs[i] = Embedding(texts[i])
           /\ (texts = <<>> /\ ext[MainThread].site # "encode") =>
                (r.status = "ok" /\ r.vecs = <<>>)

C5_Witness ==
    /\ Succeeded(MainThread)
    /\ call[MainThread].op = "embed_text_batch"
    /\ Len(call[MainThread].texts) = 2
    /\ call[MainThread].texts[1] = PyInt(-12)
    /\ call[MainThread].texts[2] = PyStrVal("a b")
    /\ result[MainThread].vecs = <<Embedding(PyInt(-12)), Embedding(PyStrVal("a b"))>>

\* C6: each vector of a successful batch equals what embed_text returns for the
\* same element.
C6_SingleBatchAgree ==
    (Succeeded(MainThread) /\ call[MainThread].op = "embed_text_batch") =>
        \A i \in 1..Len(call[MainThread].texts) :
            /\ i <= Len(result[MainThread].vecs)
            /\ LET single == BGEEmbedder_embed_text(call[MainThread].texts[i], NoFault)
               IN single.status = "ok" /\ result[MainThread].vecs[i] = single.vec

C6_Witness ==
    /\ Succeeded(MainThread)
    /\ call[MainThread].op = "embed_text_batch"
    /\ call[MainThread].texts = <<PyStrVal("7"), PyInt(7)>>
    /\ result[MainThread].vecs[1] = result[MainThread].vecs[2]

\* C7: the string handed to encode is str(x) for a non-string x and x itself
\* for a string, in embed_text and for every element of a batch, so x and
\* str(x) give the same call of encode.
C7_Coercion ==
    /\ (MethodRan(MainThread) /\ call[MainThread].op = "embed_text") =>
          LET x == call[MainThread].text
          IN /\ PyStr(x).ok => ext[MainThread].encoded = <<(<<Text(x)>>)>>
             /\ x.ty = "str" => ext[MainThread].encoded = <<(<<x.s>>)>>
             /\ PyStr(x).ok =>
                   \A f \in Faults :
                       BGEEmbedder_embed_text(x, f) = BGEEmbedder_embed_text(PyStrVal(Text(x)), f)
    /\ (MethodRan(MainThread) /\ call[MainThread].op = "embed_text_batch") =>
          LET texts == call[MainThread].texts
          IN (\A i \in 1..Len(texts) : PyStr(texts[i]).ok) =>
                /\ ext[MainThread].encoded = <<[i \in 1..Len(texts) |-> Text(texts[i])]>>
                /\ \A i \in 1..Len(texts) :
                       texts[i].ty = "str" => ext[MainThread].encoded[1][i] = texts[i].s

C7_Witness ==
    /\ Succeeded(MainThread)
    /\ call[MainThread].op = "embed_text"
    /\ call[MainThread].text = PyInt(-12)
    /\ ext[MainThread].encoded = <<(<<"-12">>)>>

\* C8: a batch call in which coercion, encode or a list conversion raises ends
\* with the exception and hands the caller no vector at all.
C8_AllOrNothing ==
    (MethodRan(MainThread) /\ call[MainThread].op = "embed_text_batch"
        /\ ext[MainThread].site \in {"str", "encode", "tolist"}) =>
        /\ result[MainThread].status = "raised"
        /\ result[MainThread].exc # NoExc
        /\ result[MainThread].vecs = <<>>
        /\ result[MainThread].vec = NoVec

C8_Witness ==
    /\ Failed(MainThread)
    /\ call[MainThread].op = "embed_text_batch"
    /\ Len(call[MainThread].texts) = 2
    /\ ext[MainThread].site = "tolist"
    /\ result[MainThread].vecs = <<>>

C10_LoggedOnceNoRetry ==
    Failed(MainThread) =>
        /\ Len(ErrorLines(out[MainThread])) = 1
        /\ ext[MainThread].site = "construct" =>
              (ext[MainThread].constructs = 1 /\ ext[MainThread].encoded = <<>>)
        /\ ext[MainThread].site = "encode" => Len(ext[MainThread].encoded) = 1
        /\ ext[MainThread].constructs <= 1
        /\ Len(ext[MainThread].encoded) <= 1
        /\ result[MainThread].vec = NoVec /\ result[MainThread].vecs = <<>>

C10_Witness ==
    /\ Failed(MainThread)
    /\ call[MainThread].op = "embed_text_batch"
    /\ ext[MainThread].site = "construct"
    /\ Len(ErrorLines(out[MainThread])) = 1

====
